---- MODULE Spec2Model ----
(***************************************************************************)
(* LimitedPostgresChatMessageHistory (memory/limited_postgres_memory.py).  *)
(*                                                                         *)
(* The message_store table is a set of rows; every handle of the class is  *)
(* bound to one session and reads or writes the table through its own      *)
(* connection.  Text is a sequence of symbols of a small alphabet (words,  *)
(* the blank, punctuation, digits), so that lower-casing, joining,         *)
(* substring search and the timestamp marker are computed, not assumed.    *)
(***************************************************************************)
EXTENDS Integers, Sequences, FiniteSets, TLC

VARIABLES
    store,          \* the rows of the table: [id, session_id, message, created_at],
                    \* each with the message object it was written from (origin)
    nextId,         \* the SERIAL counter behind the id column
    clock,          \* the store's now(), in minutes since 01/01/2025 00:00 UTC
    max_messages,   \* self.max_messages, the configuration of the handles
    pc,             \* per handle: "idle", or "delete" between enforce's SELECT and DELETE
    ids_to_delete,  \* per handle: the ids enforce selected for deletion
    dirty,          \* per handle: another call wrote the session since enforce's SELECT
    last            \* the call that completed last, with what it returned

vars == <<store, nextId, clock, max_messages, pc, ids_to_delete, dirty, last>>

-----------------------------------------------------------------------------
(* Bounds of the model *)

\* rows ever inserted into the table
MaxRows == 5

\* rows ever inserted into the table when two sessions share it
MaxSharedRows == 3

\* largest configured max_messages
MaxMaxMessages == 4
\* the longest window handed to should_clear_context on its own
MaxWindow == 4
\* rows in the table when other writers fill it too
MaxForeignRows == 3

-----------------------------------------------------------------------------
(* Configuration *)

\* def __init__(..., max_messages: int = 20)
DEFAULT_MAX_MESSAGES == 20

Sessions == {"A", "B"}

\* three handles: two on session A (two callers of one conversation), one on B
Handles == {1, 2, 3}

SessionOf(h) == IF h = 3 THEN "B" ELSE "A"

-----------------------------------------------------------------------------
(* Sequences, as Python slices them *)

Min(a, b) == IF a <= b THEN a ELSE b

Max(a, b) == IF a >= b THEN a ELSE b

\* xs[-m:] in the place of xs[:m]: the other end of the list
SliceWrongEnd(xs, m) == SubSeq(xs, Len(xs) - Min(m, Len(xs)) + 1, Len(xs))

\* xs[:m]
SlicePrefix(xs, m) == SubSeq(xs, 1, Min(m, Len(xs)))

\* xs[-k:] for k >= 0; -0 is 0, so xs[-0:] is the whole list
SliceLast(xs, k) ==
    IF k = 0 THEN xs ELSE SubSeq(xs, Max(Len(xs) - k, 0) + 1, Len(xs))

\* pattern in text
Contains(text, pattern) ==
    \E i \in 0..(Len(text) - Len(pattern)) :
        SubSeq(text, i + 1, i + Len(pattern)) = pattern

RECURSIVE JoinSpace(_)
\* " ".join(texts)
JoinSpace(texts) ==
    IF Len(texts) = 0 THEN <<>>
    ELSE IF Len(texts) = 1 THEN texts[1]
    ELSE texts[1] \o <<" ">> \o JoinSpace(Tail(texts))

\* str.lower(), symbol by symbol
LowerSymbol(c) ==
    CASE c = "Oi" -> "oi"
      [] c = "Desculpe," -> "desculpe,"
      [] c = "NÃO" -> "não"
      [] c = "Pode" -> "pode"
      [] c = "[CONTEXTO_MEMORIA_ANTIGA:" -> "[contexto_memoria_antiga:"
      [] OTHER -> c

Lower(text) == [i \in 1..Len(text) |-> LowerSymbol(text[i])]


-----------------------------------------------------------------------------
(* The timestamp marker *)

\* TIMEZONE = "America/Sao_Paulo": UTC-03:00, in minutes (no daylight saving
\* time in the modelled period)
UTC_OFFSET_MINUTES == 180

Digits == <<"0", "1", "2", "3", "4", "5", "6", "7", "8", "9">>

\* %d, %m, %H, %M, %S: two digits, zero padded
TwoDigits(n) == <<Digits[(n \div 10) + 1], Digits[(n % 10) + 1]>>

\* created_at.astimezone(tz), as minutes since 31/12/2024 00:00 local time
Localized(created_at) == created_at - UTC_OFFSET_MINUTES + 1440

\* dt_localized.strftime("%d/%m/%Y %H:%M:%S (%Z)"), for dates from
\* 31/12/2024 to 31/01/2025; the clock counts whole minutes, so %S is 00
FormatTime(created_at) ==
    LET t == Localized(created_at)
        day == t \div 1440
        minute == t % 1440
        date == IF day = 0
                THEN <<"3", "1", "/", "1", "2", "/", "2", "0", "2", "4">>
                ELSE TwoDigits(day) \o <<"/", "0", "1", "/", "2", "0", "2", "5">>
    IN  date \o <<" ">> \o TwoDigits(minute \div 60) \o <<":">>
             \o TwoDigits(minute % 60) \o <<":", "0", "0", " ", "(-03)">>

\* f"[CONTEXTO_MEMORIA_ANTIGA: {formatted_time}] "
Marker(created_at) ==
    <<"[CONTEXTO_MEMORIA_ANTIGA:", " ">> \o FormatTime(created_at) \o <<"]", " ">>

-----------------------------------------------------------------------------
(* Messages *)

NoKwargs == {}

\* HumanMessage(content=..., additional_kwargs=...)
HumanMessage(content, kwargs) ==
    [type |-> "human", content |-> content, additional_kwargs |-> kwargs]

\* AIMessage(content=..., additional_kwargs=...)
AIMessage(content, kwargs) ==
    [type |-> "ai", content |-> content, additional_kwargs |-> kwargs]

\* the messages the callers append
Messages ==
    { HumanMessage(<<"Oi">>, NoKwargs),
      AIMessage(<<"Desculpe,", " ", "NÃO", " ", "identifiquei">>,
                {<<"tool", "busca">>}) }

\* confusion_patterns of should_clear_context
confusion_patterns ==
    << <<"não", " ", "identifiquei">>,
       <<"não", " ", "consegui", " ", "identificar">>,
       <<"informar", " ", "o", " ", "nome", " ", "principal">>,
       <<"desculpe,", " ", "não">>,
       <<"pode", " ", "informar">> >>

-----------------------------------------------------------------------------
(* The table, and the base history self._postgres_history *)

\* dict.get(key, default)
Get(d, key, default) == IF key \in DOMAIN d THEN d[key] ELSE default

\* WHERE session_id = %s
SessionRows(st, s) == {r \in st : r.session_id = s}

RECURSIVE OrderByCreatedAtDesc(_)
\* the rows newest first: ORDER BY created_at DESC
OrderByCreatedAtDesc(rows) ==
    IF rows = {} THEN <<>>
    ELSE LET r == CHOOSE r \in rows : \A q \in rows : r.created_at >= q.created_at
         IN  <<r>> \o OrderByCreatedAtDesc(rows \ {r})

RECURSIVE OrderByCreatedAt(_)
\* ORDER BY created_at ASC
OrderByCreatedAt(rows) ==
    IF rows = {} THEN <<>>
    ELSE LET r == CHOOSE r \in rows : \A q \in rows : r.created_at <= q.created_at
         IN  <<r>> \o OrderByCreatedAt(rows \ {r})

RECURSIVE OrderById(_)
\* ORDER BY id ASC
OrderById(rows) ==
    IF rows = {} THEN <<>>
    ELSE LET r == CHOOSE r \in rows : \A q \in rows : r.id <= q.id
         IN  <<r>> \o OrderById(rows \ {r})

\* message_to_dict of the base history: the type tag beside a "data" object
\* that holds the message's fields
MessageToDict(m) ==
    [type |-> m.type,
     data |-> [content |-> m.content, additional_kwargs |-> m.additional_kwargs]]

\* messages_from_dict of the base history
MessageFromDict(d) ==
    IF d.type = "ai"
    THEN AIMessage(d.data.content, d.data.additional_kwargs)
    ELSE HumanMessage(d.data.content, d.data.additional_kwargs)

\* INSERT INTO message_store (session_id, message) VALUES (session_id,
\* json.dumps(message_to_dict(message))): the store assigns the id and
\* created_at; origin keeps the message object itself and is no column
InsertRow(st, id, s, m, now) ==
    st \cup {[id |-> id, session_id |-> s, message |-> MessageToDict(m),
              created_at |-> now, origin |-> m]}

\* self._postgres_history.messages: the session's rows by id, decoded
HistoryMessages(st, s) ==
    LET rows == OrderById(SessionRows(st, s))
    IN  [i \in 1..Len(rows) |-> MessageFromDict(rows[i].message)]

-----------------------------------------------------------------------------
(* The context-shaping functions of the class *)

\* should_clear_context without .lower(): the phrases are searched in the
\* text as written
ShouldClearContextCaseSensitive(recent_messages) ==
    IF Len(recent_messages) < 3 THEN FALSE
    ELSE LET tail3 == SliceLast(recent_messages, 3)
             recent_text == JoinSpace([i \in 1..Len(tail3) |-> tail3[i].content])
             confusion_count ==
                 Cardinality({p \in 1..Len(confusion_patterns) :
                                 Contains(recent_text, confusion_patterns[p])})
         IN  confusion_count >= 2

\* should_clear_context that joins the text of the whole window
ShouldClearContextWholeWindow(recent_messages) ==
    IF Len(recent_messages) < 3 THEN FALSE
    ELSE LET recent_text ==
                 JoinSpace([i \in 1..Len(recent_messages) |->
                               Lower(recent_messages[i].content)])
             confusion_count ==
                 Cardinality({p \in 1..Len(confusion_patterns) :
                                 Contains(recent_text, confusion_patterns[p])})
         IN  confusion_count >= 2

\* should_clear_context(recent_messages)
ShouldClearContext(recent_messages) ==
    IF Len(recent_messages) < 3 THEN FALSE
    ELSE LET tail3 == SliceLast(recent_messages, 3)
             recent_text ==
                 JoinSpace([i \in 1..Len(tail3) |-> Lower(tail3[i].content)])
             confusion_count ==
                 Cardinality({p \in 1..Len(confusion_patterns) :
                                 Contains(recent_text, confusion_patterns[p])})
         IN  confusion_count >= 2

\* the Python type of what the driver hands over for the message column: a
\* mapping is a record of its keys, a string is [py_str |-> its text] and
\* anything else (a list, a number) is [py_other |-> its type's name]
PyType(message_data) ==
    IF "py_str" \in DOMAIN message_data THEN "str"
    ELSE IF "py_other" \in DOMAIN message_data THEN "other"
    ELSE "dict"

\* json.loads on the texts a writer may have put in the column: the one JSON
\* document is parsed to its mapping, every other text raises
JsonLoads(text) ==
    IF text = "{\"type\": \"ai\", \"content\": \"Oi\"}"
    THEN [raised |-> FALSE, value |-> [type |-> "ai", content |-> <<"Oi">>]]
    ELSE [raised |-> TRUE, value |-> [type |-> "human"]]

\* the isinstance chain of the loop: a string or a mapping goes on, any other
\* payload is passed over (continue)
GoesOn(r) == PyType(r.message) \in {"str", "dict"}

\* the body of the loop of _fetch_messages_with_timestamp, for a row that
\* goes on: a string is parsed, a mapping is taken as it is
AnnotateRow(r) ==
    LET message_dict == IF PyType(r.message) = "str"
                        THEN JsonLoads(r.message.py_str).value
                        ELSE r.message
        message_type == Get(message_dict, "type", "human")
        content == Get(message_dict, "content", <<>>)
        additional_kwargs == Get(message_dict, "additional_kwargs", NoKwargs)
        new_content == Marker(r.created_at) \o content
    IN  IF message_type = "ai"
        THEN AIMessage(new_content, additional_kwargs)
        ELSE HumanMessage(new_content, additional_kwargs)

\* the base history's messages_from_dict takes a payload only when it is a
\* mapping with the keys type and data; on any other it raises
BaseDecodes(message_data) ==
    /\ PyType(message_data) = "dict"
    /\ {"type", "data"} \subseteq DOMAIN message_data

\* _fetch_messages_with_timestamp: connFails says that the connection or the
\* query of the annotated read raises, histFails that the base history's read
\* in the except branch raises as well (nothing catches that one).  The try
\* block spans the whole loop, so a json.loads that raises on one row ends
\* the annotated read like a store error does; and the base history raises
\* on a row that it cannot decode.
FetchMessagesWithTimestamp(st, s, connFails, histFails) ==
    LET raw_messages == OrderByCreatedAt(SessionRows(st, s))
        loadsRaises ==
            \E r \in SessionRows(st, s) :
                PyType(r.message) = "str" /\ JsonLoads(r.message.py_str).raised
        going == SelectSeq(raw_messages, GoesOn)
        baseRaises ==
            histFails \/ \E r \in SessionRows(st, s) : ~BaseDecodes(r.message)
    IN  IF ~connFails /\ ~loadsRaises
        THEN [raised |-> FALSE, path |-> "annotated",
              msgs |-> [i \in 1..Len(going) |-> AnnotateRow(going[i])]]
        ELSE IF ~baseRaises
        THEN [raised |-> FALSE, path |-> "fallback", msgs |-> HistoryMessages(st, s)]
        ELSE [raised |-> TRUE, path |-> "none", msgs |-> <<>>]

\* get_optimized_context with the confusion check ahead of the comparison
\* with max_messages
OptimizedContextDetectFirst(all_messages, k) ==
    IF ShouldClearContext(all_messages) THEN SliceLast(all_messages, 3)
    ELSE IF Len(all_messages) <= k THEN all_messages
    ELSE SliceLast(all_messages, k)

\* get_optimized_context with < in the comparison with max_messages
OptimizedContextStrictLimit(all_messages, k) ==
    IF Len(all_messages) < k THEN all_messages
    ELSE LET recent_messages == SliceLast(all_messages, k)
         IN  IF ShouldClearContext(recent_messages)
             THEN SliceLast(recent_messages, 3)
             ELSE recent_messages

\* get_optimized_context, from the fetched list on
OptimizedContext(all_messages, k) ==
    IF Len(all_messages) <= k THEN all_messages
    ELSE LET recent_messages == SliceLast(all_messages, k)
         IN  IF ShouldClearContext(recent_messages)
             THEN SliceLast(recent_messages, 3)
             ELSE recent_messages

-----------------------------------------------------------------------------
(* The calls *)

\* what a completed call leaves in last: raised says that an exception
\* reached the caller, failed that the store failed inside the call (the
\* connection or the statement raised), caught or not
Call(op, h) ==
    [op |-> op, session |-> SessionOf(h), raised |-> FALSE, failed |-> FALSE,
     path |-> "none", out |-> <<>>, count |-> 0, verdict |-> FALSE,
     pre |-> {}, quiet |-> TRUE]

\* a write to session s reaches the handles that are between enforce's SELECT
\* and DELETE on that session
Touch(h, s) ==
    [g \in Handles |->
        IF g # h /\ SessionOf(g) = s /\ pc[g] = "delete" THEN TRUE ELSE dirty[g]]

\* add_message that enforces the limit after its insert
AddMessageEnforcing(h, limit) ==
    /\ pc[h] = "idle"
    /\ nextId <= limit
    /\ \E m \in Messages :
          LET inserted == InsertRow(store, nextId, SessionOf(h), m, clock)
              mine == SessionRows(inserted, SessionOf(h))
          IN  /\ store' = {r \in inserted :
                             r \in mine =>
                                Cardinality({q \in mine : q.id > r.id}) < max_messages}
              /\ last' = [Call("add_message", h) EXCEPT !.out = <<m>>]
    /\ nextId' = nextId + 1
    /\ clock' = clock + 20
    /\ dirty' = Touch(h, SessionOf(h))
    /\ UNCHANGED <<max_messages, pc, ids_to_delete>>

\* add_message(message): the base history inserts the encoded message; a
\* store error propagates to the caller
AddMessage(h, limit) ==
    /\ pc[h] = "idle"
    /\ nextId <= limit
    /\ \E m \in Messages, fails \in BOOLEAN :
          IF fails
          THEN /\ last' = [Call("add_message", h) EXCEPT
                                  !.raised = TRUE, !.failed = TRUE]
               /\ UNCHANGED <<store, nextId, clock, dirty>>
          ELSE /\ store' = InsertRow(store, nextId, SessionOf(h), m, clock)
               /\ nextId' = nextId + 1
               /\ clock' = clock + 20
               /\ dirty' = Touch(h, SessionOf(h))
               /\ last' = [Call("add_message", h) EXCEPT !.out = <<m>>]
    /\ UNCHANGED <<max_messages, pc, ids_to_delete>>

\* clear() as a DELETE that spares the session's newest row
ClearSparingNewest(h) ==
    /\ pc[h] = "idle"
    /\ store' = {r \in store :
                    r.session_id = SessionOf(h)
                       => \A q \in SessionRows(store, SessionOf(h)) : q.id <= r.id}
    /\ dirty' = Touch(h, SessionOf(h))
    /\ last' = Call("clear", h)
    /\ UNCHANGED <<nextId, clock, max_messages, pc, ids_to_delete>>

\* clear(): the base history deletes the session's rows
Clear(h) ==
    /\ pc[h] = "idle"
    /\ \E fails \in BOOLEAN :
          IF fails
          THEN /\ last' = [Call("clear", h) EXCEPT !.raised = TRUE, !.failed = TRUE]
               /\ UNCHANGED <<store, dirty>>
          ELSE /\ store' = store \ SessionRows(store, SessionOf(h))
               /\ dirty' = Touch(h, SessionOf(h))
               /\ last' = Call("clear", h)
    /\ UNCHANGED <<nextId, clock, max_messages, pc, ids_to_delete>>

\* the SELECT step with messages_to_delete one too large
EnforceReadOneMore(h) ==
    /\ pc[h] = "idle"
    /\ \E fails \in BOOLEAN :
          LET message_ids == OrderById(SessionRows(store, SessionOf(h)))
              messages_to_delete == Len(message_ids) - max_messages + 1
              chosen == SlicePrefix(message_ids, messages_to_delete)
          IN  IF fails
              THEN /\ last' = [Call("enforce", h) EXCEPT !.failed = TRUE, !.pre = store]
                   /\ UNCHANGED <<pc, ids_to_delete, dirty>>
              ELSE IF Len(message_ids) > max_messages
              THEN /\ pc' = [pc EXCEPT ![h] = "delete"]
                   /\ ids_to_delete' =
                          [ids_to_delete EXCEPT
                              ![h] = {chosen[i].id : i \in 1..Len(chosen)}]
                   /\ dirty' = [dirty EXCEPT ![h] = FALSE]
                   /\ last' = Call("enforce_select", h)
              ELSE /\ last' = [Call("enforce", h) EXCEPT !.pre = store]
                   /\ UNCHANGED <<pc, ids_to_delete, dirty>>
    /\ UNCHANGED <<store, nextId, clock, max_messages>>

\* _enforce_message_limit, up to the DELETE: connect, SELECT id ... ORDER BY
\* id ASC, and the choice of the ids; with nothing to delete the call ends
\* here, and an error is caught and printed (except Exception)
EnforceRead(h) ==
    /\ pc[h] = "idle"
    /\ \E fails \in BOOLEAN :
          LET message_ids == OrderById(SessionRows(store, SessionOf(h)))
              messages_to_delete == Len(message_ids) - max_messages
              chosen == SlicePrefix(message_ids, messages_to_delete)
          IN  IF fails
              THEN /\ last' = [Call("enforce", h) EXCEPT !.failed = TRUE, !.pre = store]
                   /\ UNCHANGED <<pc, ids_to_delete, dirty>>
              ELSE IF Len(message_ids) > max_messages
              THEN /\ pc' = [pc EXCEPT ![h] = "delete"]
                   /\ ids_to_delete' =
                          [ids_to_delete EXCEPT
                              ![h] = {chosen[i].id : i \in 1..Len(chosen)}]
                   /\ dirty' = [dirty EXCEPT ![h] = FALSE]
                   /\ last' = Call("enforce_select", h)
              ELSE /\ last' = [Call("enforce", h) EXCEPT !.pre = store]
                   /\ UNCHANGED <<pc, ids_to_delete, dirty>>
    /\ UNCHANGED <<store, nextId, clock, max_messages>>

\* the DELETE as DELETE ... WHERE id <= the largest selected id
EnforceDeleteUpTo(h) ==
    /\ pc[h] = "delete"
    /\ store' = {r \in store : \A i \in ids_to_delete[h] : r.id > i}
    /\ dirty' = [Touch(h, SessionOf(h)) EXCEPT ![h] = FALSE]
    /\ last' = [Call("enforce", h) EXCEPT !.pre = store, !.quiet = ~dirty[h]]
    /\ pc' = [pc EXCEPT ![h] = "idle"]
    /\ ids_to_delete' = [ids_to_delete EXCEPT ![h] = {}]
    /\ UNCHANGED <<nextId, clock, max_messages>>

\* the DELETE as a statement that counts the session's rows again and deletes
\* down to max_messages
EnforceDeleteRecount(h) ==
    /\ pc[h] = "delete"
    /\ store' = {r \in store :
                    r.session_id = SessionOf(h)
                       => Cardinality({q \in SessionRows(store, SessionOf(h)) : q.id > r.id})
                             < max_messages}
    /\ dirty' = [Touch(h, SessionOf(h)) EXCEPT ![h] = FALSE]
    /\ last' = [Call("enforce", h) EXCEPT !.pre = store, !.quiet = ~dirty[h]]
    /\ pc' = [pc EXCEPT ![h] = "idle"]
    /\ ids_to_delete' = [ids_to_delete EXCEPT ![h] = {}]
    /\ UNCHANGED <<nextId, clock, max_messages>>

\* the DELETE as one statement and one commit per id: an error after the
\* first leaves the oldest selected row deleted
EnforceDeletePartial(h) ==
    /\ pc[h] = "delete"
    /\ \E fails \in BOOLEAN :
          /\ store' = IF fails
                       THEN {r \in store :
                               r.id \in ids_to_delete[h]
                                  => \E i \in ids_to_delete[h] : i < r.id}
                       ELSE {r \in store : r.id \notin ids_to_delete[h]}
          /\ dirty' = [Touch(h, SessionOf(h)) EXCEPT ![h] = FALSE]
          /\ last' = [Call("enforce", h) EXCEPT
                         !.failed = fails, !.pre = store, !.quiet = ~dirty[h]]
    /\ pc' = [pc EXCEPT ![h] = "idle"]
    /\ ids_to_delete' = [ids_to_delete EXCEPT ![h] = {}]
    /\ UNCHANGED <<nextId, clock, max_messages>>

\* _enforce_message_limit, the DELETE ... WHERE id = ANY(ids) and the commit;
\* an error rolls the statement back
EnforceDelete(h) ==
    /\ pc[h] = "delete"
    /\ \E fails \in BOOLEAN :
          /\ store' = IF fails THEN store
                       ELSE {r \in store : r.id \notin ids_to_delete[h]}
          /\ dirty' = [IF fails THEN dirty ELSE Touch(h, SessionOf(h))
                          EXCEPT ![h] = FALSE]
          /\ last' = [Call("enforce", h) EXCEPT
                         !.failed = fails, !.pre = store, !.quiet = ~dirty[h]]
    /\ pc' = [pc EXCEPT ![h] = "idle"]
    /\ ids_to_delete' = [ids_to_delete EXCEPT ![h] = {}]
    /\ UNCHANGED <<nextId, clock, max_messages>>

\* get_message_count(): SELECT COUNT(*), and 0 on an error
GetMessageCount(h) ==
    /\ pc[h] = "idle"
    /\ \E fails \in BOOLEAN :
          last' = [Call("get_message_count", h) EXCEPT
                      !.failed = fails,
                      !.count = IF fails THEN 0
                                ELSE Cardinality(SessionRows(store, SessionOf(h)))]
    /\ UNCHANGED <<store, nextId, clock, max_messages, pc, ids_to_delete, dirty>>

\* get_session_info(): the handle's settings and get_message_count()
GetSessionInfo(h) ==
    /\ pc[h] = "idle"
    /\ \E fails \in BOOLEAN :
          last' = [Call("get_session_info", h) EXCEPT
                      !.failed = fails,
                      !.count = IF fails THEN 0
                                ELSE Cardinality(SessionRows(store, SessionOf(h)))]
    /\ UNCHANGED <<store, nextId, clock, max_messages, pc, ids_to_delete, dirty>>

\* get_optimized_context that writes the annotated content back to the rows
GetContextPersisting(h) ==
    /\ pc[h] = "idle"
    /\ \E connFails, histFails \in BOOLEAN :
          LET fetched == FetchMessagesWithTimestamp(store, SessionOf(h), connFails, histFails)
          IN  /\ last' = [Call("get_context", h) EXCEPT
                             !.raised = fetched.raised,
                             !.failed = connFails,
                             !.path = fetched.path,
                             !.out = IF fetched.raised THEN <<>>
                                     ELSE OptimizedContext(fetched.msgs, max_messages)]
              /\ store' =
                    IF fetched.path # "annotated" THEN store
                    ELSE {IF r.session_id # SessionOf(h) THEN r
                          ELSE [r EXCEPT !.message =
                                   [type |-> r.message.type, data |-> r.message.data,
                                    content |-> Marker(r.created_at)
                                                  \o Get(r.message, "content", <<>>)]]
                          : r \in store}
    /\ UNCHANGED <<nextId, clock, max_messages, pc, ids_to_delete, dirty>>

\* get_optimized_context(), which the messages property returns
GetContext(h) ==
    /\ pc[h] = "idle"
    /\ \E connFails, histFails \in BOOLEAN :
          LET fetched == FetchMessagesWithTimestamp(store, SessionOf(h), connFails, histFails)
          IN  last' = [Call("get_context", h) EXCEPT
                          !.raised = fetched.raised,
                          !.failed = connFails,
                          !.path = fetched.path,
                          !.out = IF fetched.raised THEN <<>>
                                  ELSE OptimizedContext(fetched.msgs, max_messages)]
    /\ UNCHANGED <<store, nextId, clock, max_messages, pc, ids_to_delete, dirty>>

-----------------------------------------------------------------------------
(* Specifications *)

\* the table is empty and the clock reads 01/01/2025 02:30 UTC, which is
\* 31/12/2024 23:30 in Sao Paulo
InitWith(limits) ==
    /\ store = {}
    /\ nextId = 1
    /\ clock = 150
    /\ max_messages \in limits
    /\ pc = [h \in Handles |-> "idle"]
    /\ ids_to_delete = [h \in Handles |-> {}]
    /\ dirty = [h \in Handles |-> FALSE]
    /\ last = Call("init", 1)

Init == InitWith(0..MaxMaxMessages)

\* the calls that write the table
Writes(h, limit) ==
    \/ AddMessage(h, limit)
    \/ Clear(h)
    \/ EnforceRead(h)
    \/ EnforceDelete(h)

\* the calls that read it
Reads(h) ==
    \/ GetMessageCount(h)
    \/ GetSessionInfo(h)
    \/ GetContext(h)

\* one conversation, session A: handle 1 is the agent's, handle 2 a second
\* caller that writes and enforces beside it (what it would read is what
\* handle 1 reads)
Next ==
    \/ Reads(1)
    \/ \E h \in {1, 2} : Writes(h, MaxRows)

Spec == Init /\ [][Next]_vars

\* a handle built with the default max_messages
InitDefault == InitWith({DEFAULT_MAX_MESSAGES})

\* one caller on session A; with the default limit enforce finds nothing to
\* delete among MaxRows rows and ends after its SELECT
NextDefault ==
    \/ AddMessage(1, MaxRows)
    \/ Clear(1)
    \/ EnforceRead(1)
    \/ Reads(1)

SpecDefault == InitDefault /\ [][NextDefault]_vars

\* two conversations, sessions A and B, each with its caller
NextSessions == \E h \in {1, 3} : Reads(h) \/ Writes(h, MaxSharedRows)

SpecSessions == Init /\ [][NextSessions]_vars

\* one conversation that is never cleared: two callers append to session A
\* and enforce its limit, in any order
NextRace == \E h \in {1, 2} : AddMessage(h, MaxRows) \/ EnforceRead(h) \/ EnforceDelete(h)

SpecRace == Init /\ [][NextRace]_vars

\* the messages of the windows handed to should_clear_context on its own:
\* with no phrase, with two phrases in capitals, with one phrase, and two
\* that make up a phrase only when one follows the other
DetectorMessages ==
    { HumanMessage(<<"Oi">>, NoKwargs),
      AIMessage(<<"Desculpe,", " ", "NÃO", " ", "identifiquei">>, NoKwargs),
      AIMessage(<<"Pode", " ", "informar">>, NoKwargs),
      AIMessage(<<"Desculpe,">>, NoKwargs),
      HumanMessage(<<"não", " ", "consegui", " ", "identificar">>, NoKwargs) }

Windows == UNION {[1..n -> DetectorMessages] : n \in 0..MaxWindow}

\* a window is at hand, any of Windows
InitDetector ==
    /\ store = {}
    /\ nextId = 1
    /\ clock = 150
    /\ max_messages = DEFAULT_MAX_MESSAGES
    /\ pc = [h \in Handles |-> "idle"]
    /\ ids_to_delete = [h \in Handles |-> {}]
    /\ dirty = [h \in Handles |-> FALSE]
    /\ last \in {[Call("init", 1) EXCEPT !.out = recent_messages] :
                    recent_messages \in Windows}

\* the call should_clear_context(recent_messages) on the window at hand
ShouldClear(h) ==
    /\ pc[h] = "idle"
    /\ last.op = "init"
    /\ last' = [Call("should_clear_context", h) EXCEPT
                   !.out = last.out,
                   !.verdict = ShouldClearContext(last.out)]
    /\ UNCHANGED <<store, nextId, clock, max_messages, pc, ids_to_delete, dirty>>

\* the detector called on its own
NextDetector == ShouldClear(1)

SpecDetector == InitDetector /\ [][NextDetector]_vars

\* what a writer other than add_message may leave in the message column of
\* the table that _fetch_messages_with_timestamp reads: mappings with the
\* keys the loop looks up (type ai, another type, no type), a string that is
\* a JSON document, a string that is none, and a list
ForeignPayloads ==
    { [type |-> "ai", content |-> <<"Oi">>, additional_kwargs |-> {<<"tool", "busca">>}],
      [type |-> "system", content |-> <<"Oi">>, additional_kwargs |-> NoKwargs],
      [content |-> <<"Oi">>],
      [py_str |-> "{\"type\": \"ai\", \"content\": \"Oi\"}"],
      [py_str |-> "Oi"],
      [py_other |-> "list"] }

\* another writer inserts a row into session A
ForeignInsert(limit) ==
    /\ nextId <= limit
    /\ \E message_data \in ForeignPayloads :
          store' = store \cup
                      {[id |-> nextId, session_id |-> "A", message |-> message_data,
                        created_at |-> clock, origin |-> message_data]}
    /\ nextId' = nextId + 1
    /\ clock' = clock + 20
    /\ dirty' = Touch(0, "A")
    /\ last' = [Call("foreign_insert", 1) EXCEPT !.session = "A"]
    /\ UNCHANGED <<max_messages, pc, ids_to_delete>>

\* session A read by the agent's handle while add_message and another
\* writer fill it
NextForeign ==
    \/ AddMessage(1, MaxForeignRows)
    \/ ForeignInsert(MaxForeignRows)
    \/ GetContext(1)

SpecForeign == InitDefault /\ [][NextForeign]_vars

-----------------------------------------------------------------------------
(* What the claims speak of *)

\* the rows of the session of the last call
LastRows == SessionRows(store, last.session)

\* the i-th oldest row of a set, by created_at
Oldest(rows, i) ==
    CHOOSE r \in rows : Cardinality({q \in rows : q.created_at < r.created_at}) = i - 1

\* the i-th row of a set, by id
ById(rows, i) ==
    CHOOSE r \in rows : Cardinality({q \in rows : q.id < r.id}) = i - 1

IsPrefix(p, text) == Len(p) <= Len(text) /\ SubSeq(text, 1, Len(p)) = p

\* the session's whole history as the last get_context fetched it: annotated
\* and by created_at, or, on the fallback path, unannotated and by id
History ==
    [i \in 1..Cardinality(LastRows) |->
        IF last.path = "annotated" THEN AnnotateRow(Oldest(LastRows, i))
        ELSE MessageFromDict(ById(LastRows, i).message)]

\* the k most recent messages of a history, oldest first
MostRecent(history, k) ==
    [i \in 1..Min(k, Len(history)) |-> history[Len(history) - Min(k, Len(history)) + i]]

\* the confusion phrases that occur in at least one of the messages,
\* whatever the case of the letters
PhrasesIn(messages) ==
    {p \in 1..Len(confusion_patterns) :
        \E i \in 1..Len(messages) :
            Contains(Lower(messages[i].content), confusion_patterns[p])}

Returned == last.op = "get_context" /\ ~last.raised

-----------------------------------------------------------------------------
(* C1 *)

\* C1: when the session holds n <= max_messages rows, get_context on the
\* annotated path returns n messages, the i-th being the i-th oldest row by
\* created_at with the marker of that row's created_at in front of its
\* content; nothing is cut off.  The marker of 01/01/2025 02:30 UTC reads
\* 31/12/2024 23:30:00 (-03), and that of 03:10 UTC reads 01/01/2025 00:10:00.
C1_WithinLimit ==
    (Returned /\ last.path = "annotated" /\ Cardinality(LastRows) <= max_messages)
    => /\ Len(last.out) = Cardinality(LastRows)
       /\ \A i \in 1..Len(last.out) :
             LET r == Oldest(LastRows, i)
             IN  /\ IsPrefix(Marker(r.created_at), last.out[i].content)
                 /\ r.created_at = 150 =>
                       IsPrefix(<<"[CONTEXTO_MEMORIA_ANTIGA:", " ",
                                  "3", "1", "/", "1", "2", "/", "2", "0", "2", "4", " ",
                                  "2", "3", ":", "3", "0", ":", "0", "0", " ",
                                  "(-03)", "]", " ">>, last.out[i].content)
                 /\ r.created_at = 190 =>
                       IsPrefix(<<"[CONTEXTO_MEMORIA_ANTIGA:", " ",
                                  "0", "1", "/", "0", "1", "/", "2", "0", "2", "5", " ",
                                  "0", "0", ":", "1", "0", ":", "0", "0", " ",
                                  "(-03)", "]", " ">>, last.out[i].content)

\* three rows within the limit, read back annotated, the newest written after
\* midnight in Sao Paulo
C1_Witness ==
    /\ Returned /\ last.path = "annotated"
    /\ Cardinality(LastRows) <= max_messages
    /\ Len(last.out) = 3
    /\ \E r \in LastRows : r.created_at = 190

-----------------------------------------------------------------------------
(* C2 *)

\* C2: for every max_messages >= 0, when the session holds n > max_messages
\* rows and the confusion detector says no on the max_messages most recent
\* messages, get_context returns exactly those max_messages messages, oldest
\* first.
C2_RecentWindow ==
    (/\ Returned
     /\ Cardinality(LastRows) > max_messages
     /\ ~ShouldClearContext(MostRecent(History, max_messages)))
    => last.out = MostRecent(History, max_messages)

-----------------------------------------------------------------------------
(* C3 *)

\* C3: when the session holds n > max_messages rows and the last 3 messages
\* of the window (the max_messages most recent messages) contain at least 2
\* distinct confusion phrases, get_context returns those trailing 3 messages
\* of the window, in order.
C3_Shortened ==
    (/\ Returned
     /\ Cardinality(LastRows) > max_messages
     /\ Cardinality(PhrasesIn(MostRecent(MostRecent(History, max_messages), 3))) >= 2)
    => last.out = MostRecent(MostRecent(History, max_messages), 3)

\* a window of 4 messages cut down to its last 3
C3_Witness ==
    /\ Returned
    /\ Cardinality(LastRows) > max_messages
    /\ max_messages > 3
    /\ Cardinality(PhrasesIn(MostRecent(MostRecent(History, max_messages), 3))) >= 2
    /\ Len(last.out) = 3

-----------------------------------------------------------------------------
(* C4 *)

\* the scenario: 5 stored messages, the default max_messages, and two
\* distinct confusion phrases in each of the messages 3, 4 and 5
C4_Scenario ==
    /\ Returned
    /\ max_messages = DEFAULT_MAX_MESSAGES
    /\ Cardinality(LastRows) = 5
    /\ \A i \in 3..5 : Cardinality(PhrasesIn(<<Oldest(LastRows, i).origin>>)) >= 2

\* C4 as claimed: in the scenario get_context detects confusion and returns
\* only the messages 3, 4 and 5.
C4_OnlyLastThree == C4_Scenario => last.out = MostRecent(History, 3)

\* C4 as amended: in the scenario get_context returns all 5 messages, oldest
\* first; with no more than max_messages rows the confusion detector is not
\* consulted.
C4_AllFive == C4_Scenario => (Len(last.out) = 5 /\ last.out = History)

\* the scenario read on the fallback path, where the phrases are in the
\* returned text
C4_Witness ==
    /\ C4_Scenario
    /\ last.path = "fallback"
    /\ Cardinality(PhrasesIn(MostRecent(last.out, 3))) >= 2

-----------------------------------------------------------------------------
(* C5 *)

\* the session's rows before the last enforce
RowsBefore == SessionRows(last.pre, last.session)

\* C5: an enforce that succeeds on a session holding n > max_messages rows,
\* with no other call writing the session between its SELECT and its DELETE,
\* leaves exactly max_messages rows, those with the highest ids; the
\* n - max_messages rows it deleted are the oldest.
C5_EnforceKeepsNewest ==
    (/\ last.op = "enforce" /\ ~last.failed /\ last.quiet
     /\ Cardinality(RowsBefore) > max_messages)
    => /\ Cardinality(LastRows) = max_messages
       /\ LastRows =
             {r \in RowsBefore :
                 Cardinality({q \in RowsBefore : q.id > r.id}) < max_messages}
       /\ \A d \in RowsBefore \ LastRows : \A r \in LastRows : d.id < r.id

\* an enforce that deleted two rows or more and kept two or more
C5_Witness ==
    /\ last.op = "enforce" /\ ~last.failed /\ last.quiet
    /\ max_messages >= 2
    /\ Cardinality(RowsBefore) >= max_messages + 2
    /\ Cardinality(LastRows) = max_messages

-----------------------------------------------------------------------------
(* C6 *)

\* C6: when the annotated read fails with a store error, get_context does
\* not raise: it returns what it makes of the base history's unannotated
\* list.
C6_FallbackNeverRaises ==
    (last.op = "get_context" /\ last.path # "annotated")
    => /\ ~last.raised
       /\ last.out = OptimizedContext(HistoryMessages(store, last.session), max_messages)

-----------------------------------------------------------------------------
(* C7 *)

\* C7: add_message never triggers retention: an add_message that succeeds
\* keeps every stored row and adds one row to its session, and get_context
\* deletes nothing, so the count grows with every append, past max_messages.
C7_AppendsKeepEverything ==
    [][/\ (last'.op = "add_message" /\ ~last'.raised)
            => /\ store \subseteq store'
               /\ Cardinality(SessionRows(store', last'.session))
                     = Cardinality(SessionRows(store, last'.session)) + 1
       /\ last'.op = "get_context" => store' = store]_vars

\* every row ever appended is stored, two more of them than max_messages
C7_Witness ==
    /\ last.op = "add_message" /\ ~last.raised
    /\ max_messages >= 1
    /\ Cardinality(store) = nextId - 1
    /\ Cardinality(LastRows) >= max_messages + 2

-----------------------------------------------------------------------------
(* C8 *)

\* the markers in a text
MarkerCount(text) ==
    Cardinality({i \in 1..Len(text) : text[i] = "[CONTEXTO_MEMORIA_ANTIGA:"})

\* C8: get_context, get_message_count and get_session_info leave the table as
\* it is; a get_context right after a get_context (same session, same path)
\* returns the same sequence; every message of an annotated result carries
\* exactly one marker.
C8_ReadsLeaveStore ==
    [][/\ last'.op \in {"get_context", "get_message_count", "get_session_info"}
            => store' = store
       /\ (/\ last.op = "get_context" /\ last'.op = "get_context"
           /\ last'.session = last.session /\ last'.path = last.path)
            => last'.out = last.out
       /\ (last'.op = "get_context" /\ last'.path = "annotated")
            => \A i \in 1..Len(last'.out) : MarkerCount(last'.out[i].content) = 1]_vars

\* an annotated read of two messages or more
C8_Witness ==
    /\ Returned /\ last.path = "annotated"
    /\ Len(last.out) >= 2
    /\ \A i \in 1..Len(last.out) : MarkerCount(last.out[i].content) = 1

-----------------------------------------------------------------------------
(* C9 *)

\* what get_context makes of a set of rows alone, on a path, with limit k
ContextFrom(rows, s, path, k) ==
    OptimizedContext(
        FetchMessagesWithTimestamp(rows, s, path # "annotated", FALSE).msgs, k)

\* C9: a call on a handle of one session leaves the rows of every other
\* session as they are; the rows an enforce deletes are rows of its session
\* with ids it selected; get_context and get_message_count return what the
\* session's own rows give.
C9_SessionsIndependent ==
    [][/\ \A s \in Sessions :
             s # last'.session => SessionRows(store', s) = SessionRows(store, s)
       /\ last'.op = "enforce"
            => \E h \in Handles :
                  /\ SessionOf(h) = last'.session
                  /\ store \ store' \subseteq
                        {r \in store : r.id \in ids_to_delete[h]
                                         /\ r.session_id = last'.session}
       /\ (last'.op = "get_context" /\ ~last'.raised)
            => last'.out = ContextFrom(SessionRows(store', last'.session),
                                       last'.session, last'.path, max_messages')
       /\ last'.op = "get_message_count"
            => last'.count \in {0, Cardinality(SessionRows(store', last'.session))}]_vars

\* an enforce that deleted rows of its session while the other session held
\* rows, older ones among them
C9_Witness ==
    /\ last.op = "enforce" /\ ~last.failed
    /\ Cardinality(LastRows) < Cardinality(RowsBefore)
    /\ \E r \in store \ LastRows : \E d \in RowsBefore \ LastRows : r.id < d.id

-----------------------------------------------------------------------------
(* C10 *)

\* a content without the marker of created_at in front of it
StripMarker(content, created_at) ==
    IF IsPrefix(Marker(created_at), content)
    THEN SubSeq(content, Len(Marker(created_at)) + 1, Len(content))
    ELSE content

\* C10: every message of an annotated get_context has the role of the message
\* that add_message stored in its row and, the marker removed, the same
\* content and the same metadata.
C10_RoundTrip ==
    (Returned /\ last.path = "annotated")
    => \A i \in 1..Len(last.out) :
          LET r == Oldest(LastRows, Cardinality(LastRows) - Len(last.out) + i)
          IN  /\ last.out[i].type = r.origin.type
              /\ StripMarker(last.out[i].content, r.created_at) = r.origin.content
              /\ last.out[i].additional_kwargs = r.origin.additional_kwargs

-----------------------------------------------------------------------------
(* C11 *)

\* C11: a clear() that succeeds leaves its session without rows, whatever
\* was appended or enforced before; until an add_message succeeds on the
\* session it stays without rows, and on a session without rows
\* get_message_count returns 0 and a get_context that returns returns the
\* empty sequence.
C11_ClearEmpties ==
    [][/\ (last'.op = "clear" /\ ~last'.raised)
            => SessionRows(store', last'.session) = {}
       /\ \A s \in Sessions :
             (/\ SessionRows(store, s) = {}
              /\ ~(last'.op = "add_message" /\ ~last'.raised /\ last'.session = s))
             => SessionRows(store', s) = {}
       /\ (/\ last'.op \in {"get_message_count", "get_session_info"}
           /\ SessionRows(store', last'.session) = {})
            => last'.count = 0
       /\ (/\ last'.op = "get_context" /\ ~last'.raised
           /\ SessionRows(store', last'.session) = {})
            => last'.out = <<>>]_vars

\* an empty get_context on a session that had two rows or more and a limit
\* that no enforce empties it with: a clear took them
C11_Witness ==
    /\ Returned /\ last.out = <<>>
    /\ max_messages >= 1
    /\ nextId >= 3
    /\ LastRows = {}

-----------------------------------------------------------------------------
(* C12 *)

\* the newest row of a set, by id
Newest(rows) == CHOOSE r \in rows : \A q \in rows : q.id <= r.id

\* handle h is between its SELECT and its DELETE, and since the SELECT one
\* row was appended to its session and nothing else was written: the session
\* holds the rows the SELECT saw, more than max_messages, and one newer row,
\* and the ids selected are those of the oldest rows the SELECT saw
AppendedSinceSelect(h) ==
    LET rows == SessionRows(store, SessionOf(h))
        seen == rows \ {Newest(rows)}
    IN  /\ pc[h] = "delete" /\ dirty[h]
        /\ Cardinality(rows) >= 2
        /\ Cardinality(seen) > max_messages
        /\ ids_to_delete[h] =
              {r.id : r \in {q \in seen :
                                Cardinality({p \in seen : p.id > q.id}) >= max_messages}}

\* C12: when one row is appended between the SELECT and the DELETE of an
\* enforce, the DELETE that commits leaves the new row in place and does not
\* count it: the session is left with max_messages + 1 rows, and the rows
\* deleted are the selected ones, older than every row left.  An enforce that
\* then runs on these max_messages + 1 rows with no write in between leaves
\* exactly max_messages rows.
C12_AppendDuringEnforce ==
    [][/\ \A h \in Handles :
             (/\ AppendedSinceSelect(h)
              /\ pc'[h] = "idle" /\ ~last'.failed)
             => LET rows == SessionRows(store, SessionOf(h))
                    left == SessionRows(store', SessionOf(h))
                IN  /\ Newest(rows) \in left
                    /\ Cardinality(left) = max_messages + 1
                    /\ left = {r \in rows : r.id \notin ids_to_delete[h]}
                    /\ \A d \in rows \ left : \A r \in left : d.id < r.id
       /\ (/\ last'.op = "enforce" /\ ~last'.failed /\ last'.quiet
           /\ Cardinality(SessionRows(last'.pre, last'.session)) = max_messages + 1)
            => Cardinality(SessionRows(store', last'.session)) = max_messages]_vars

\* an enforce that another call wrote across: it deleted rows and left one
\* row more than max_messages, the newest of all rows ever appended
C12_Witness ==
    /\ last.op = "enforce" /\ ~last.failed /\ ~last.quiet
    /\ max_messages >= 2
    /\ Cardinality(LastRows) < Cardinality(RowsBefore)
    /\ Cardinality(LastRows) = max_messages + 1
    /\ Newest(LastRows).id = nextId - 1

-----------------------------------------------------------------------------
(* C14 *)

\* C14: a store error inside get_message_count (or get_session_info, which
\* calls it) or inside enforce does not reach the caller: the count returned
\* is 0, enforce returns, and the table is as it was before the call; an
\* enforce that fails at its DELETE has deleted none of the selected rows.
C14_ErrorsSwallowed ==
    /\ (last.op \in {"get_message_count", "get_session_info"} /\ last.failed)
          => (~last.raised /\ last.count = 0)
    /\ (last.op = "enforce" /\ last.failed)
          => (~last.raised /\ store = last.pre)

\* an enforce on more than max_messages rows that failed at its DELETE (only
\* the DELETE step records a write that came in between): every row is there
C14_Witness ==
    /\ last.op = "enforce" /\ last.failed /\ ~last.quiet
    /\ Cardinality(RowsBefore) > max_messages
    /\ LastRows = RowsBefore

-----------------------------------------------------------------------------
(* C17 *)

\* C17: with add_message and enforce calls of two callers interleaved on one
\* session and no clear, the max_messages most recently inserted rows are
\* all in the table, so the session holds at least min(max_messages, rows
\* ever appended) rows.
C17_NewestSurvive ==
    LET rows == SessionRows(store, "A")
        appended == nextId - 1
    IN  /\ \A i \in 1..appended :
              i > appended - max_messages => \E r \in rows : r.id = i
        /\ Cardinality(rows) >= Min(max_messages, appended)

\* an enforce that deleted rows after a write came between its SELECT and
\* its DELETE, while the other caller is between its own SELECT and DELETE
C17_Witness ==
    /\ last.op = "enforce" /\ ~last.failed /\ ~last.quiet
    /\ \E h \in Handles : pc[h] = "delete"
    /\ max_messages >= 2
    /\ Cardinality(LastRows) < Cardinality(RowsBefore)
    /\ nextId - 1 >= max_messages + 2

-----------------------------------------------------------------------------
(* C18 *)

\* C18: for every max_messages >= 0, what get_context returns, on the
\* annotated path and on the fallback path, is a run of the last messages of
\* the session's history in its order, and holds at most max_messages
\* messages.
C18_SuffixWithinLimit ==
    Returned
    => /\ last.out = MostRecent(History, Len(last.out))
       /\ Len(last.out) <= max_messages

-----------------------------------------------------------------------------
(* C19 *)

\* the last call is an enforce that succeeded on more than max_messages rows
\* with no write between its SELECT and its DELETE
EnforcedAlone ==
    /\ last.op = "enforce" /\ ~last.failed /\ last.quiet
    /\ Cardinality(RowsBefore) > max_messages

\* the two paths of get_context
Paths == {"annotated", "fallback"}

\* what get_context returns right before and right after the last enforce
ContextBefore(path) == ContextFrom(RowsBefore, last.session, path, max_messages)
ContextAfter(path) == ContextFrom(LastRows, last.session, path, max_messages)

\* the max_messages most recent messages of the history before the enforce
WindowBefore(path) ==
    MostRecent(FetchMessagesWithTimestamp(RowsBefore, last.session,
                                          path # "annotated", FALSE).msgs,
               max_messages)

-----------------------------------------------------------------------------
(* C15 *)

\* the confusion phrases that occur in the text of the last 3 messages of a
\* window of 3 or more, the texts put one after the other with a blank in
\* between, whatever the case of the letters
PhrasesInLastThree(window) ==
    LET three == MostRecent(window, 3)
        text == Lower(three[1].content \o <<" ">> \o three[2].content
                         \o <<" ">> \o three[3].content)
    IN  {p \in 1..Len(confusion_patterns) : Contains(text, confusion_patterns[p])}

\* C15: should_clear_context says no on every window of fewer than 3
\* messages; on a window of 3 or more it says yes exactly when 2 or more
\* distinct phrases of the fixed set occur, whatever the case of the letters,
\* in the text of the last 3 messages; what it says on a window is what it
\* says on the window's last 3 messages alone.
C15_Detector ==
    last.op = "should_clear_context"
    => /\ Len(last.out) < 3 => ~last.verdict
       /\ Len(last.out) >= 3
            => /\ last.verdict <=> Cardinality(PhrasesInLastThree(last.out)) >= 2
               /\ last.verdict = ShouldClearContext(MostRecent(last.out, 3))

\* a window of 4 whose first message holds two phrases and whose last 3
\* hold one: the detector says no
C15_Witness ==
    /\ last.op = "should_clear_context"
    /\ Len(last.out) = 4
    /\ Cardinality(PhrasesIn(<<last.out[1]>>)) >= 2
    /\ Cardinality(PhrasesInLastThree(last.out)) = 1
    /\ ~last.verdict

-----------------------------------------------------------------------------
(* C13 *)

\* the row's payload decodes: it is a mapping, or a string that json.loads
\* parses
Decodes(r) ==
    \/ PyType(r.message) = "dict"
    \/ PyType(r.message) = "str" /\ ~JsonLoads(r.message.py_str).raised

\* C13: a row whose payload does not decode (a string that is no JSON, a
\* payload that is neither string nor mapping) is passed over on its own: a
\* get_context that meets no store error does not raise and stays on the
\* annotated path, and returns one annotated message for every other row of
\* the session, in the order of created_at.
C13_BadRowSkipped ==
    (last.op = "get_context" /\ ~last.failed)
    => /\ ~last.raised
       /\ last.path = "annotated"
       /\ LET good == {r \in LastRows : Decodes(r)}
          IN  /\ Len(last.out) = Cardinality(good)
              /\ \A i \in 1..Len(last.out) : last.out[i] = AnnotateRow(Oldest(good, i))

-----------------------------------------------------------------------------
(* C16 *)

\* the mapping stored in a row that decodes
StoredDict(r) ==
    IF PyType(r.message) = "str" THEN JsonLoads(r.message.py_str).value ELSE r.message

\* the metadata map stored in a row: the base history's encoding keeps it
\* under data, a flat mapping at the top
StoredMetadata(r) ==
    IF "data" \in DOMAIN StoredDict(r)
    THEN StoredDict(r).data.additional_kwargs
    ELSE Get(StoredDict(r), "additional_kwargs", NoKwargs)

\* C16: in an annotated read of rows that all decode, the message of a row
\* has the ai role when the stored type tag is "ai" and the human role for
\* any other tag and for no tag, carries the row's metadata map as stored,
\* and has the marker of the row in front of its content.
C16_RoleAndMetadata ==
    (Returned /\ last.path = "annotated" /\ \A r \in LastRows : Decodes(r))
    => \A i \in 1..Len(last.out) :
          LET r == Oldest(LastRows, i)
          IN  /\ last.out[i].type =
                    IF "type" \in DOMAIN StoredDict(r) /\ StoredDict(r).type = "ai"
                    THEN "ai" ELSE "human"
              /\ last.out[i].additional_kwargs = StoredMetadata(r)
              /\ IsPrefix(Marker(r.created_at), last.out[i].content)

=============================================================================
